---- MODULE Spec2Model ----
(***************************************************************************)
(* stash (src/main.rs): run a command, tee its stdout and stderr to the    *)
(* terminal and to a timestamped log file, keep only the last N logs.      *)
(*                                                                         *)
(* The model follows main() step by step for a session of invocations run  *)
(* one after another against one log directory (Spec, and FairSpec with    *)
(* fair scheduling), and for supervisors started together against one      *)
(* directory (PeersSpec).  File names are byte sequences (character codes), *)
(* the clock is the local wall clock in milliseconds of the day, a unit of *)
(* child output is one line.                                               *)
(***************************************************************************)
EXTENDS Integers, Sequences, FiniteSets, TLC

\* ------------------------------------------------------------------ bounds
MaxWork == 6       \* a session's budget: an invocation costs 2 plus the lines its child writes
MaxRetain == 3     \* --retain is drawn from 0..MaxRetain
MaxTick == 1       \* milliseconds the clock may advance before it is read
PipeCap == 2       \* units an OS pipe buffers before the child blocks

\* --------------------------------------------------------------- constants
None == -1                 \* Option::None of an exit code / name not set
FallbackCode == 1          \* status.code().unwrap_or(1)
ErrCode == 1               \* main returned Err(_)
PanicCode == 101           \* a panic that reaches the main thread

Streams == {"out", "err"}

\* ------------------------------------------------------- names and format
Dot == <<46>>
Dash == <<45>>
LogExt == <<108, 111, 103>>                      \* "log"
TxtExt == <<116, 120, 116>>                      \* "txt"
NoExt == <<0>>                                   \* Path::extension() = None

Digits2(n) == << 48 + ((n \div 10) % 10), 48 + (n % 10) >>
Digits3(n) == << 48 + ((n \div 100) % 10), 48 + ((n \div 10) % 10), 48 + (n % 10) >>
Digits4(n) == << 48 + ((n \div 1000) % 10) >> \o Digits3(n)

\* the session's calendar day; the clock counts milliseconds of that day
Year == 2025
Month == 7
Day == 12
MsPerDay == 24 * 3600000

\* the time of day alone, as "%H%M%S%.3f" would print it
FormatNowTimeOnly(t) ==
    LET r == t % MsPerDay
    IN  Digits2(r \div 3600000) \o Digits2((r \div 60000) % 60)
        \o Digits2((r \div 1000) % 60) \o Dot \o Digits3(r % 1000)

\* Local::now().format("%Y%m%d-%H%M%S%.3f")
FormatNow(t) ==
    LET d  == Day + (t \div MsPerDay)
        r  == t % MsPerDay
        h  == r \div 3600000
        mi == (r \div 60000) % 60
        s  == (r \div 1000) % 60
        ms == r % 1000
    IN  Digits4(Year) \o Digits2(Month) \o Digits2(d) \o Dash
        \o Digits2(h) \o Digits2(mi) \o Digits2(s) \o Dot \o Digits3(ms)

\* format!("{}.log", ...)
LogFileName(t) == FormatNow(t) \o Dot \o LogExt

\* position of the last '.' of a name, 0 when it has none
LastDot(name) ==
    LET dots == {i \in 1..Len(name) : name[i] = 46}
    IN  IF dots = {} THEN 0 ELSE CHOOSE i \in dots : \A j \in dots : j <= i

\* Path::extension(): the part after the last '.', None when there is no '.'
\* or nothing stands before it (".log" is a hidden file, not an extension)
Extension(name) ==
    IF LastDot(name) <= 1 THEN NoExt
    ELSE SubSeq(name, LastDot(name) + 1, Len(name))

IsLog(name) == Extension(name) = LogExt

\* Ord of two paths of one directory: byte-wise on the file name
PathLess(a, b) ==
    \E i \in 1..(Len(b)) :
        /\ \A j \in 1..(i - 1) : j <= Len(a) /\ a[j] = b[j]
        /\ \/ i = Len(a) + 1
           \/ (i <= Len(a) /\ a[i] < b[i])

RECURSIVE SortByPath(_)
SortByPath(S) ==
    IF S = {} THEN <<>>
    ELSE LET m == CHOOSE x \in S : \A y \in S \ {x} : PathLess(x, y)
         IN  <<m>> \o SortByPath(S \ {m})

SeqToSet(q) == {q[i] : i \in 1..Len(q)}

\* --------------------------------------------------------------- rotation
\* the loop with `>=` for `>`: it prunes one file too many
RECURSIVE RotateLoopOneMore(_, _, _, _)
RotateLoopOneMore(logs, keep, stuck, acc) ==
    IF Len(logs) >= keep /\ logs # <<>>
    THEN LET old == Head(logs)
         IN  RotateLoopOneMore(Tail(logs), keep, stuck,
                 [tried |-> Append(acc.tried, old),
                  gone  |-> IF old \in stuck THEN acc.gone ELSE acc.gone \cup {old}])
    ELSE acc

\* the loop with `remove_file(..)?` for `let _ = remove_file(..)`: it stops at
\* the first deletion that fails
RECURSIVE RotateLoopAbort(_, _, _, _)
RotateLoopAbort(logs, keep, stuck, acc) ==
    IF Len(logs) > keep
    THEN LET old == Head(logs)
         IN  IF old \in stuck
             THEN [tried |-> Append(acc.tried, old), gone |-> acc.gone]
             ELSE RotateLoopAbort(Tail(logs), keep, stuck,
                      [tried |-> Append(acc.tried, old), gone |-> acc.gone \cup {old}])
    ELSE acc

\* the loop with `retain + 1` for `retain`: it leaves one file more
RECURSIVE RotateLoopKeepOneMore(_, _, _, _)
RotateLoopKeepOneMore(logs, keep, stuck, acc) ==
    IF Len(logs) > keep + 1
    THEN LET old == Head(logs)
         IN  RotateLoopKeepOneMore(Tail(logs), keep, stuck,
                 [tried |-> Append(acc.tried, old),
                  gone  |-> IF old \in stuck THEN acc.gone ELSE acc.gone \cup {old}])
    ELSE acc

\* the while loop of rotate_old: remove(0), then remove_file whose error is
\* ignored; `stuck` are the entries whose remove_file fails
RECURSIVE RotateLoop(_, _, _, _)
RotateLoop(logs, keep, stuck, acc) ==
    IF Len(logs) > keep
    THEN LET old == Head(logs)
         IN  RotateLoop(Tail(logs), keep, stuck,
                 [tried |-> Append(acc.tried, old),
                  gone  |-> IF old \in stuck THEN acc.gone ELSE acc.gone \cup {old}])
    ELSE acc

\* rotate_old: Err when read_dir fails, else Ok whatever the deletions did;
\* with what it tried to delete, in order, and what it deleted
RotateOld(listable, names, keep, stuck) ==
    IF ~listable
    THEN [ok |-> FALSE, tried |-> <<>>, gone |-> {}]
    ELSE LET r == RotateLoop(SortByPath({n \in names : IsLog(n)}), keep, stuck,
                             [tried |-> <<>>, gone |-> {}])
         IN  [ok |-> TRUE, tried |-> r.tried, gone |-> r.gone]

\* ------------------------------------------------------------ the commands
\* the child programs of the session: what each writes to its stdout and
\* stderr, one unit per line; BadLine is a line that is not valid UTF-8
BadLine == "\\xff"
\* a last line that does not end in a newline
PartialLine == "abc"
EndsWithNewline(u) == u # PartialLine
Programs == {"vim", "/usr/bin/vim", "echo", "printf", "seq", "make", "cat", "nosuch"}
Script(prog) ==
    CASE prog = "echo" -> [out |-> <<"hello">>, err |-> <<>>]
      [] prog = "printf" -> [out |-> <<PartialLine>>, err |-> <<>>]
      [] prog = "seq"  -> [out |-> <<"1", "2", "3">>, err |-> <<>>]
      [] prog = "make" -> [out |-> <<"cc a.c", "cc b.c">>, err |-> <<"warning">>]
      [] prog = "cat"  -> [out |-> <<BadLine, "text">>, err |-> <<>>]
      [] OTHER         -> [out |-> <<>>, err |-> <<>>]
Launchable(prog) == prog # "nosuch"
ExitCodes == {0, 3}
NoScript == [out |-> <<>>, err |-> <<>>]
Cost(prog) == 2 + Len(Script(prog).out) + Len(Script(prog).err)

\* alphabetical order of the program names, for Vec<String>::sort
NameOrder == <<"/usr/bin/vim", "cat", "echo", "make", "nosuch", "printf", "seq", "vim">>
Rank(p) == CHOOSE i \in 1..Len(NameOrder) : NameOrder[i] = p
RECURSIVE SortNames(_)
SortNames(S) ==
    IF S = {} THEN <<>>
    ELSE LET m == CHOOSE x \in S : \A y \in S : Rank(x) <= Rank(y)
         IN  <<m>> \o SortNames(S \ {m})
\* ignore_list.sort(); ignore_list.dedup()
SortDedup(list) == SortNames(SeqToSet(list))

\* what --ignore may carry and what stash.toml may hold
CliIgnores == {<<>>, <<"vim">>}
ConfigFiles == {[kind |-> "absent",  ignore |-> <<>>],
                [kind |-> "invalid", ignore |-> <<>>],
                [kind |-> "ok",      ignore |-> <<"vim", "vim">>]}

\* the log directory when the session starts: files a user may have left
\* there next to logs of earlier days
OldLog(n) == Digits4(Year) \o Digits2(Month) \o Digits2(Day - 1) \o Dash
             \o Digits2(n) \o Digits2(0) \o Digits2(0) \o Dot \o Digits3(0)
             \o Dot \o LogExt
Notes == <<110, 111, 116, 101, 115>> \o Dot \o TxtExt      \* "notes.txt"
Hidden == Dot \o LogExt                                     \* ".log"
InitDir == {OldLog(1), OldLog(2), OldLog(3), Notes, Hidden}
\* the entries of the directory that are directories themselves: read_dir
\* lists them, remove_file fails on them
SubDirs == {OldLog(3)}
StartClock == (((23 * 60) + 59) * 60 + 59) * 1000 + 998     \* 23:59:59.998

\* ------------------------------------------------------------------ state
VARIABLES
    retain,       \* opts.retain, the same for every invocation of the session
    clock,        \* local wall clock, ms
    files,        \* the log directory: file name -> content (units, each with its stream)
    invCount,     \* invocations started so far
    quota,        \* what is left of the session's budget
    pc,           \* where main() stands; "idle" = no supervisor process
    mode,         \* "none" | "bypass" | "captured": the branch step 10 took
    opts,         \* [cmd]: the command to run (--ignore is drawn where step 7 reads it)
    ignore_list,  \* the merged ignore list
    logName,      \* name of the File `log` is open on, <<>> when none
    exitCode,     \* exit code of the last supervisor process, None before
    ending,       \* how it ended: "none" | "exit" | "error" | "panic" | "signal"
    child,        \* [state, status, todo, wrote, sig]; sig: SIGINT was delivered to it
    pipe,         \* stream -> units in the pipe
    wOpen,        \* stream -> the child's end of the pipe is open
    rOpen,        \* stream -> the broadcaster's end of the pipe is open
    tee,          \* stream -> [pc, line, locked, fault, held] of the spawn_tee thread;
                  \* fault: the call that failed in it, "none" | "read" | "term" | "log";
                  \* held: what its terminal handle has buffered and not written yet
    term,         \* stream -> units written to the terminal in this invocation
    rot,          \* history of this invocation's rotate_old: [ran] times it ran, read_dir
                  \* [listed] the directory, the names [before], the names it [tried] to
                  \* delete in order, the names [gone], it returned [err]
    created,      \* names given to File::create, in order, with the clock read (history)
    peer          \* instance -> a supervisor of the concurrent session (PeersSpec):
                  \* [pc, log, ino, off, unlinked, truncated, todo]

vars == << retain, clock, files, invCount, quota, pc, mode, opts, ignore_list, logName,
           exitCode, ending, child, pipe, wOpen, rOpen, tee, term, rot, created, peer >>

storeVars == << retain, clock, files, rot, created >>
teeVars   == << child, pipe, wOpen, rOpen, tee, term >>

NoName == <<>>
\* the supervisor instances of the concurrent session, and one not started yet
Instances == {1, 2}
NoPeer == [pc |-> "none", log |-> NoName, ino |-> None, off |-> 0, unlinked |-> FALSE,
           truncated |-> FALSE, todo |-> NoScript]
NoOpts == [cmd |-> ""]
NoChild == [state |-> "none", status |-> None, todo |-> NoScript, wrote |-> NoScript,
            sig |-> FALSE]
NoTee == [pc |-> "unspawned", line |-> "", locked |-> FALSE, fault |-> "none", held |-> ""]
NoRot == [ran |-> 0, listed |-> FALSE, before |-> {}, tried |-> <<>>, gone |-> {},
          err |-> FALSE]
Names == DOMAIN files
Logs == {n \in Names : IsLog(n)}

Init ==
    /\ retain \in 0..MaxRetain
    /\ clock = StartClock
    /\ files = [n \in InitDir |-> <<>>]
    /\ invCount = 0
    /\ quota = MaxWork
    /\ pc = "idle"
    /\ mode = "none"
    /\ opts = NoOpts
    /\ ignore_list = <<>>
    /\ logName = NoName
    /\ exitCode = None
    /\ ending = "none"
    /\ child = NoChild
    /\ pipe = [s \in Streams |-> <<>>]
    /\ wOpen = [s \in Streams |-> FALSE]
    /\ rOpen = [s \in Streams |-> FALSE]
    /\ tee = [s \in Streams |-> NoTee]
    /\ term = [s \in Streams |-> <<>>]
    /\ rot = NoRot
    /\ created = <<>>
    /\ peer = [i \in Instances |-> NoPeer]

\* the supervisor process ends with `code`: its threads end with it, and
\* what its stdout handle still buffers leaves the process or is lost
Terminate(code, how) ==
    /\ pc' = "idle"
    /\ exitCode' = code
    /\ ending' = how
    /\ tee' = [s \in Streams |->
                IF tee[s].pc \in {"unspawned", "done", "panicked"}
                THEN [tee[s] EXCEPT !.held = ""]
                ELSE [tee[s] EXCEPT !.pc = "killed", !.locked = FALSE, !.held = ""]]
    /\ rOpen' = [s \in Streams |-> FALSE]

\* the terminal once the runtime has flushed the stdout handle, as it does when
\* main returns, panics or calls std::process::exit
Flushed == [s \in Streams |-> IF tee[s].held = "" THEN term[s] ELSE Append(term[s], tee[s].held)]

\* main, step 1: Opts::parse()
Start(prog) ==
    /\ pc = "idle"
    /\ Cost(prog) <= quota
    /\ invCount' = invCount + 1
    /\ quota' = quota - Cost(prog)
    /\ pc' = "mkdir"
    /\ mode' = "none"
    /\ opts' = [cmd |-> prog]
    /\ ignore_list' = <<>>
    /\ logName' = NoName
    /\ exitCode' = None
    /\ ending' = "none"
    /\ child' = NoChild
    /\ pipe' = [s \in Streams |-> <<>>]
    /\ wOpen' = [s \in Streams |-> FALSE]
    /\ rOpen' = [s \in Streams |-> FALSE]
    /\ tee' = [s \in Streams |-> NoTee]
    /\ term' = [s \in Streams |-> <<>>]
    /\ rot' = NoRot
    /\ UNCHANGED << retain, clock, files, created, peer >>

\* main, step 3: fs::create_dir_all(&opts.log_dir)?
MkDir(ok) ==
    /\ pc = "mkdir"
    /\ IF ~ok
       THEN Terminate(ErrCode, "error") /\ UNCHANGED << child, pipe, wOpen, term >>
       ELSE pc' = "rotate" /\ UNCHANGED << exitCode, ending, teeVars >>
    /\ UNCHANGED << storeVars, invCount, quota, peer, mode, opts, ignore_list, logName >>

\* main, step 4: rotate_old(&opts.log_dir, opts.retain)?
Rotate(listable) ==
    /\ pc = "rotate"
    /\ LET r == RotateOld(listable, Names, retain, SubDirs)
       IN  /\ files' = [n \in Names \ r.gone |-> files[n]]
           /\ rot' = [ran |-> rot.ran + 1, listed |-> listable, before |-> Names,
                      tried |-> r.tried, gone |-> r.gone, err |-> ~r.ok]
           /\ IF r.ok
              THEN pc' = "create" /\ UNCHANGED << exitCode, ending, tee, rOpen >>
              ELSE Terminate(ErrCode, "error")
    /\ UNCHANGED << retain, clock, created, invCount, quota, peer, mode, opts, ignore_list, logName,
                    child, pipe, wOpen, term >>

\* steps 5 and 4 the other way round: the file is created and the pruning
\* pass runs after it, over a directory that holds the new file
CreateThenPrune(tick, ok) ==
    /\ pc = "create"
    /\ clock' = clock + tick
    /\ LET name == LogFileName(clock')
           r    == RotateOld(TRUE, Names \cup {name}, retain, SubDirs)
       IN  IF ok
           THEN /\ files' = [n \in (Names \cup {name}) \ r.gone |->
                                IF n = name THEN <<>> ELSE files[n]]
                /\ logName' = name
                /\ created' = Append(created, [name |-> name, at |-> clock'])
                /\ pc' = "config"
                /\ UNCHANGED << exitCode, ending, teeVars >>
           ELSE /\ Terminate(ErrCode, "error")
                /\ UNCHANGED << files, logName, created, child, pipe, wOpen, term >>
    /\ UNCHANGED << retain, rot, invCount, quota, peer, mode, opts, ignore_list >>

\* main, step 5: Local::now() names the file, fs::File::create(&logfile)?
Create(tick, ok) ==
    /\ pc = "create"
    /\ clock' = clock + tick
    /\ LET name == LogFileName(clock')
       IN  IF ok
           THEN /\ files' = [n \in Names \cup {name} |-> IF n = name THEN <<>> ELSE files[n]]
                /\ logName' = name
                /\ created' = Append(created, [name |-> name, at |-> clock'])
                /\ pc' = "config"
                /\ UNCHANGED << exitCode, ending, teeVars >>
           ELSE /\ Terminate(ErrCode, "error")
                /\ UNCHANGED << files, logName, created, child, pipe, wOpen, term >>
    /\ UNCHANGED << retain, rot, invCount, quota, peer, mode, opts, ignore_list >>

\* main, steps 6 to 8: load_config_file(), extend, sort, dedup
LoadConfig(cfg, cli) ==
    /\ pc = "config"
    /\ IF cfg.kind = "invalid"
       THEN /\ Terminate(PanicCode, "panic")
            /\ UNCHANGED << ignore_list, child, pipe, wOpen, term >>
       ELSE /\ ignore_list' = SortDedup(cfg.ignore \o cli)
            /\ pc' = "check"
            /\ UNCHANGED << exitCode, ending, teeVars >>
    /\ UNCHANGED << storeVars, invCount, quota, peer, mode, opts, logName >>

\* ignore_list.iter().any(|p| p == prog)
Ignored == \E i \in 1..Len(ignore_list) : ignore_list[i] = opts.cmd

\* main, steps 9 and 10: the ignore test
CheckIgnore ==
    /\ pc = "check"
    /\ pc' = IF Ignored THEN "bypass" ELSE "spawn"
    /\ mode' = IF Ignored THEN "bypass" ELSE "captured"
    /\ ignore_list' = <<>>          \* not read again
    /\ UNCHANGED << storeVars, invCount, quota, peer, opts, logName, exitCode, ending, teeVars >>

UnwrapOr(code, dflt) == IF code = None THEN dflt ELSE code

\* main, step 10 (ignored program): Command::status() with inherited stdio,
\* then exit with its code
Bypass(status) ==
    /\ pc = "bypass"
    /\ IF Launchable(opts.cmd)
       THEN /\ child' = [state |-> "exited", status |-> status,
                         todo |-> NoScript, wrote |-> Script(opts.cmd), sig |-> FALSE]
            /\ term' = [s \in Streams |-> Script(opts.cmd)[s]]
            /\ Terminate(UnwrapOr(status, FallbackCode), "exit")
       ELSE /\ status = None
            /\ Terminate(ErrCode, "error")
            /\ UNCHANGED << child, term >>
    /\ UNCHANGED << storeVars, invCount, quota, peer, mode, opts, ignore_list, logName, pipe, wOpen >>

\* step 10 with a clean-up on failure: the log of a command that could not be
\* launched is removed again
SpawnOrRemoveLog ==
    /\ pc = "spawn"
    /\ IF Launchable(opts.cmd)
       THEN /\ child' = [state |-> "running", status |-> None,
                         todo |-> Script(opts.cmd), wrote |-> NoScript, sig |-> FALSE]
            /\ wOpen' = [s \in Streams |-> TRUE]
            /\ rOpen' = [s \in Streams |-> TRUE]
            /\ pc' = "tee_out"
            /\ UNCHANGED << exitCode, ending, tee, files >>
       ELSE /\ Terminate(ErrCode, "error")
            /\ files' = [n \in Names \ {logName} |-> files[n]]
            /\ UNCHANGED << child, wOpen >>
    /\ UNCHANGED << retain, clock, rot, created, invCount, quota, peer, mode, opts, ignore_list,
                    logName, pipe, term >>

\* main, step 10 (captured): Command::spawn()? with piped stdout and stderr
Spawn ==
    /\ pc = "spawn"
    /\ IF Launchable(opts.cmd)
       THEN /\ child' = [state |-> "running", status |-> None,
                         todo |-> Script(opts.cmd), wrote |-> NoScript, sig |-> FALSE]
            /\ wOpen' = [s \in Streams |-> TRUE]
            /\ rOpen' = [s \in Streams |-> TRUE]
            /\ pc' = "tee_out"
            /\ UNCHANGED << exitCode, ending, tee >>
       ELSE /\ Terminate(ErrCode, "error")
            /\ UNCHANGED << child, wOpen >>
    /\ UNCHANGED << storeVars, invCount, quota, peer, mode, opts, ignore_list, logName, pipe, term >>

\* step 12 after step 13: the broadcasters are started once the child is gone
SpawnTeeAfterWait(s) ==
    /\ pc = (IF s = "out" THEN "tee_out" ELSE "tee_err")
    /\ child.state = "exited"
    /\ tee' = [tee EXCEPT ![s].pc = "read"]
    /\ pc' = (IF s = "out" THEN "tee_err" ELSE "wait")
    /\ UNCHANGED << storeVars, invCount, quota, peer, mode, opts, ignore_list, logName, exitCode, ending,
                    child, pipe, wOpen, rOpen, term >>

\* main, step 12: spawn_tee(stdout_pipe, log_clone, false), spawn_tee(stderr_pipe, log, true)
SpawnTee(s) ==
    /\ pc = (IF s = "out" THEN "tee_out" ELSE "tee_err")
    /\ tee' = [tee EXCEPT ![s].pc = "read"]
    /\ pc' = (IF s = "out" THEN "tee_err" ELSE "wait")
    /\ UNCHANGED << storeVars, invCount, quota, peer, mode, opts, ignore_list, logName, exitCode, ending,
                    child, pipe, wOpen, rOpen, term >>

\* main, step 13: child.wait()?
Wait ==
    /\ pc = "wait"
    /\ child.state = "exited"
    /\ pc' = "join_out"
    /\ UNCHANGED << storeVars, invCount, quota, peer, mode, opts, ignore_list, logName, exitCode, ending,
                    teeVars >>

\* main, step 13: handle.join().unwrap(), a panic of the thread panics main
Join(s) ==
    /\ pc = (IF s = "out" THEN "join_out" ELSE "join_err")
    /\ tee[s].pc \in {"done", "panicked"}
    /\ IF tee[s].pc = "panicked"
       THEN Terminate(PanicCode, "panic") /\ term' = Flushed
       ELSE /\ pc' = (IF s = "out" THEN "join_err" ELSE "exit")
            /\ UNCHANGED << exitCode, ending, tee, rOpen, term >>
    /\ UNCHANGED << storeVars, invCount, quota, peer, mode, opts, ignore_list, logName, child, pipe, wOpen >>

\* main, step 14: std::process::exit(status.code().unwrap_or(1))
Exit ==
    /\ pc = "exit"
    /\ Terminate(UnwrapOr(child.status, FallbackCode), "exit")
    /\ term' = Flushed
    /\ UNCHANGED << storeVars, invCount, quota, peer, mode, opts, ignore_list, logName, child, pipe, wOpen >>

\* ---------------------------------------------------------------- the child
\* the child writes the next line of one of its streams; writing to a pipe
\* nobody reads any more kills it (SIGPIPE)
ChildWrite(s) ==
    /\ child.state = "running"
    /\ child.todo[s] # <<>>
    /\ IF ~rOpen[s]
       THEN /\ child' = [child EXCEPT !.state = "exited", !.status = None]
            /\ wOpen' = [t \in Streams |-> FALSE]
            /\ UNCHANGED pipe
       ELSE /\ Len(pipe[s]) < PipeCap
            /\ pipe' = [pipe EXCEPT ![s] = Append(@, Head(child.todo[s]))]
            /\ child' = [child EXCEPT !.todo[s] = Tail(@),
                                      !.wrote[s] = Append(@, Head(child.todo[s]))]
            /\ UNCHANGED wOpen
    /\ UNCHANGED << storeVars, invCount, quota, peer, mode, pc, opts, ignore_list, logName, exitCode, ending,
                    rOpen, tee, term >>

\* the child ends: its pipe ends close, wait() will see `status`
ChildExit(status) ==
    /\ child.state = "running"
    /\ child.todo = NoScript
    /\ child' = [child EXCEPT !.state = "exited", !.status = status]
    /\ wOpen' = [t \in Streams |-> FALSE]
    /\ UNCHANGED << storeVars, invCount, quota, peer, mode, pc, opts, ignore_list, logName, exitCode, ending,
                    pipe, rOpen, tee, term >>

\* Ctrl-C while the captured child runs: the terminal sends SIGINT to the
\* foreground process group, the child and the supervisor.  main installs no
\* handler, so the default action ends the supervisor (no exit code); the
\* child dies of it or, when it handles the signal, goes on
Interrupt(childDies) ==
    /\ pc \in {"tee_out", "tee_err", "wait"}
    /\ child.state = "running"
    /\ Terminate(None, "signal")
    /\ IF childDies
       THEN /\ child' = [child EXCEPT !.state = "exited", !.status = None, !.sig = TRUE]
            /\ wOpen' = [t \in Streams |-> FALSE]
       ELSE /\ child' = [child EXCEPT !.sig = TRUE]
            /\ UNCHANGED wOpen
    /\ UNCHANGED << storeVars, invCount, quota, peer, mode, opts, ignore_list, logName, pipe, term >>

\* ------------------------------------------------------------- spawn_tee
IsUtf8(u) == u # BadLine

\* reader.read_line(&mut line).unwrap_or(0) > 0
TeeRead(s) ==
    /\ tee[s].pc = "read"
    /\ IF pipe[s] # <<>>
       THEN /\ EndsWithNewline(Head(pipe[s])) \/ ~wOpen[s]   \* a line, or the rest at EOF
            /\ pipe' = [pipe EXCEPT ![s] = Tail(@)]
            /\ IF IsUtf8(Head(pipe[s]))
               THEN /\ tee' = [tee EXCEPT ![s].pc = "lock", ![s].line = Head(pipe[s])]
                    /\ UNCHANGED rOpen
               ELSE \* Err(InvalidData): unwrap_or(0) ends the loop
                    /\ tee' = [tee EXCEPT ![s].pc = "done", ![s].fault = "read"]
                    /\ rOpen' = [rOpen EXCEPT ![s] = FALSE]
       ELSE /\ ~wOpen[s]                  \* end of stream: Ok(0)
            /\ tee' = [tee EXCEPT ![s].pc = "done"]
            /\ rOpen' = [rOpen EXCEPT ![s] = FALSE]
            /\ UNCHANGED pipe
    /\ UNCHANGED << storeVars, invCount, quota, peer, mode, pc, opts, ignore_list, logName, exitCode, ending,
                    child, wOpen, term >>

\* let mut out = term.lock().unwrap(): the mutex spawn_tee made for this thread
TeeLock(s) ==
    /\ tee[s].pc = "lock"
    /\ ~tee[s].locked
    /\ tee' = [tee EXCEPT ![s].pc = "term", ![s].locked = TRUE]
    /\ UNCHANGED << storeVars, invCount, quota, peer, mode, pc, opts, ignore_list, logName, exitCode, ending,
                    child, pipe, wOpen, rOpen, term >>

\* io::stdout() is line buffered: it writes through at a newline and keeps
\* what follows the last newline until the next one or a flush; io::stderr()
\* is not buffered
LineBuffered(s) == s = "out"

\* write!(out, "{}", line).unwrap(), then the guard is dropped
TeeTerm(s, ok) ==
    /\ tee[s].pc = "term"
    /\ IF ok
       THEN /\ IF LineBuffered(s) /\ ~EndsWithNewline(tee[s].line)
               THEN /\ tee' = [tee EXCEPT ![s].pc = "log", ![s].locked = FALSE,
                                           ![s].held = tee[s].line]
                    /\ UNCHANGED term
               ELSE /\ term' = [term EXCEPT ![s] = Append(Flushed[s], tee[s].line)]
                    /\ tee' = [tee EXCEPT ![s].pc = "log", ![s].locked = FALSE,
                                           ![s].held = ""]
            /\ UNCHANGED rOpen
       ELSE /\ tee' = [tee EXCEPT ![s].pc = "panicked", ![s].locked = FALSE,
                                   ![s].fault = "term"]
            /\ rOpen' = [rOpen EXCEPT ![s] = FALSE]
            /\ UNCHANGED term
    /\ UNCHANGED << storeVars, invCount, quota, peer, mode, pc, opts, ignore_list, logName, exitCode, ending,
                    child, pipe, wOpen >>

\* writer.write_all(line.as_bytes()).unwrap(); line.clear()
TeeLog(s, ok) ==
    /\ tee[s].pc = "log"
    /\ IF ok
       THEN /\ files' = [files EXCEPT ![logName] = Append(@, <<s, tee[s].line>>)]
            /\ tee' = [tee EXCEPT ![s].pc = "read", ![s].line = ""]
            /\ UNCHANGED rOpen
       ELSE /\ tee' = [tee EXCEPT ![s].pc = "panicked", ![s].fault = "log"]
            /\ rOpen' = [rOpen EXCEPT ![s] = FALSE]
            /\ UNCHANGED files
    /\ UNCHANGED << retain, clock, rot, created, invCount, quota, peer, mode, pc, opts, ignore_list,
                    logName, exitCode, ending, child, pipe, wOpen, term >>

\* ------------------------------------------------------------------- next
Next ==
    \/ \E prog \in Programs : Start(prog)
    \/ \E ok \in BOOLEAN : MkDir(ok)
    \/ \E listable \in BOOLEAN : Rotate(listable)
    \/ \E tick \in 0..MaxTick, ok \in BOOLEAN : Create(tick, ok)
    \/ \E cfg \in ConfigFiles, cli \in CliIgnores : LoadConfig(cfg, cli)
    \/ CheckIgnore
    \/ \E status \in ExitCodes \cup {None} : Bypass(status)
    \/ Spawn
    \/ \E s \in Streams : SpawnTee(s)
    \/ Wait
    \/ \E s \in Streams : Join(s)
    \/ Exit
    \/ \E s \in Streams : ChildWrite(s)
    \/ \E status \in ExitCodes \cup {None} : ChildExit(status)
    \/ \E childDies \in BOOLEAN : Interrupt(childDies)
    \/ \E s \in Streams : TeeRead(s)
    \/ \E s \in Streams : TeeLock(s)
    \/ \E s \in Streams, ok \in BOOLEAN : TeeTerm(s, ok)
    \/ \E s \in Streams, ok \in BOOLEAN : TeeLog(s, ok)

Spec == Init /\ [][Next]_vars

\* ---------------------------------------------------------------- fairness
\* the main thread, each broadcaster thread and the child are scheduled again
\* and again while they can take a step; nobody has to start an invocation or
\* to press Ctrl-C
MainStep ==
    \/ \E ok \in BOOLEAN : MkDir(ok)
    \/ \E listable \in BOOLEAN : Rotate(listable)
    \/ \E tick \in 0..MaxTick, ok \in BOOLEAN : Create(tick, ok)
    \/ \E cfg \in ConfigFiles, cli \in CliIgnores : LoadConfig(cfg, cli)
    \/ CheckIgnore
    \/ \E status \in ExitCodes \cup {None} : Bypass(status)
    \/ Spawn
    \/ \E s \in Streams : SpawnTee(s)
    \/ Wait
    \/ \E s \in Streams : Join(s)
    \/ Exit
TeeStep(s) ==
    \/ TeeRead(s)
    \/ TeeLock(s)
    \/ \E ok \in BOOLEAN : TeeTerm(s, ok)
    \/ \E ok \in BOOLEAN : TeeLog(s, ok)
ChildStep ==
    \/ \E s \in Streams : ChildWrite(s)
    \/ \E status \in ExitCodes \cup {None} : ChildExit(status)
Fairness ==
    /\ WF_vars(MainStep)
    /\ \A s \in Streams : WF_vars(TeeStep(s))
    /\ WF_vars(ChildStep)
\* sessions that keep the most logs: how the pipes drain does not depend on
\* what the rotation pass deleted
FairInit == Init /\ retain = MaxRetain
FairSpec == FairInit /\ [][Next]_vars /\ Fairness

TypeOK ==
    /\ retain \in 0..MaxRetain
    /\ pc \in {"idle", "mkdir", "rotate", "create", "config", "check", "bypass", "spawn",
               "tee_out", "tee_err", "wait", "join_out", "join_err", "exit"}
    /\ \A s \in Streams : tee[s].pc \in {"unspawned", "read", "lock", "term", "log",
                                          "done", "panicked", "killed"}
    /\ child.state \in {"none", "running", "exited"}

\* ------------------------------------------------- concurrent supervisors
\* Several stash processes started against one log directory.  Each runs
\* main() once; of main the steps that touch the directory and the log file
\* are kept: rotate_old, File::create, the broadcasters' writes, the exit.
\* The log directory exists and can be listed.

\* what instance i was asked to run
PeerCmd(i) == IF i = 1 THEN "echo" ELSE "make"

\* what the single-supervisor session keeps in its own variables
soloVars == << invCount, quota, pc, mode, opts, ignore_list, logName, exitCode, ending,
               child, pipe, wOpen, rOpen, tee, term, rot, created >>

\* instance i holds its File `log` open on a file that still has its name
Holds(i) == peer[i].pc = "run" /\ ~peer[i].unlinked

\* bytes that were never written, read back as NUL
Hole == <<"hole", "">>

\* write(2) of one unit at offset `off` of a file opened without O_APPEND
WriteAt(content, off, unit) ==
    IF off >= Len(content)
    THEN content \o [k \in 1..(off - Len(content)) |-> Hole] \o <<unit>>
    ELSE [content EXCEPT ![off + 1] = unit]

\* main, steps 1 to 3 of instance i
PeerStart(i) ==
    /\ peer[i].pc = "none"
    /\ peer' = [peer EXCEPT ![i].pc = "rotate", ![i].todo = Script(PeerCmd(i))]
    /\ UNCHANGED << retain, clock, files, soloVars >>

\* main, step 4 of instance i: a file it deletes loses its name, whoever
\* holds it open keeps writing to the nameless file
PeerRotate(i) ==
    /\ peer[i].pc = "rotate"
    /\ LET r == RotateOld(TRUE, Names, retain, SubDirs)
       IN  /\ files' = [n \in Names \ r.gone |-> files[n]]
           /\ peer' = [j \in Instances |->
                         IF j = i THEN [peer[j] EXCEPT !.pc = "create"]
                         ELSE IF Holds(j) /\ peer[j].log \in r.gone
                              THEN [peer[j] EXCEPT !.unlinked = TRUE]
                              ELSE peer[j]]
    /\ UNCHANGED << retain, clock, soloVars >>

\* main, step 5 of instance i: File::create opens with O_CREAT | O_TRUNC and
\* without O_EXCL, so a name that exists is opened and emptied
PeerCreate(i, tick) ==
    /\ peer[i].pc = "create"
    /\ clock' = clock + tick
    /\ LET name    == LogFileName(clock')
           holders == {j \in Instances \ {i} : Holds(j) /\ peer[j].log = name}
       IN  /\ files' = [n \in Names \cup {name} |-> IF n = name THEN <<>> ELSE files[n]]
           /\ peer' = [j \in Instances |->
                         IF j = i
                         THEN [peer[j] EXCEPT !.pc = "run", !.log = name, !.off = 0,
                                  !.ino = IF holders = {} THEN i
                                          ELSE peer[CHOOSE h \in holders : TRUE].ino]
                         ELSE IF j \in holders
                              THEN [peer[j] EXCEPT !.truncated = TRUE]
                              ELSE peer[j]]
    /\ UNCHANGED << retain, soloVars >>

\* a broadcaster of instance i writes the next line of stream s to the log;
\* its two handles (try_clone) share one offset
PeerWrite(i, s) ==
    /\ peer[i].pc = "run"
    /\ peer[i].todo[s] # <<>>
    /\ peer' = [peer EXCEPT ![i].todo[s] = Tail(@), ![i].off = @ + 1]
    /\ files' = IF peer[i].unlinked THEN files
                ELSE [files EXCEPT ![peer[i].log] =
                         WriteAt(@, peer[i].off, <<s, Head(peer[i].todo[s])>>)]
    /\ UNCHANGED << retain, clock, soloVars >>

\* main, step 14 of instance i: the process exits, its handles close
PeerExit(i) ==
    /\ peer[i].pc = "run"
    /\ peer[i].todo = NoScript
    /\ peer' = [peer EXCEPT ![i].pc = "done"]
    /\ UNCHANGED << retain, clock, files, soloVars >>

PeersNext ==
    \/ \E i \in Instances : PeerStart(i)
    \/ \E i \in Instances : PeerRotate(i)
    \/ \E i \in Instances, tick \in 0..MaxTick : PeerCreate(i, tick)
    \/ \E i \in Instances, s \in Streams : PeerWrite(i, s)
    \/ \E i \in Instances : PeerExit(i)

PeersSpec == Init /\ [][PeersNext]_vars

\* ================================================================ claims
RECURSIVE FromStream(_, _)
\* the units of a log's content that came from stream s, in order
FromStream(content, s) ==
    IF content = <<>> THEN <<>>
    ELSE IF Head(content)[1] = s
         THEN <<Head(content)[2]>> \o FromStream(Tail(content), s)
         ELSE FromStream(Tail(content), s)

IsPrefix(a, b) == Len(a) <= Len(b) /\ SubSeq(b, 1, Len(a)) = a

\* the log files of the directory that are regular files
RegularLogs == Logs \ SubDirs
\* the supervisor process of an invocation has ended
Finished == pc = "idle" /\ invCount >= 1
\* the content of the log of the running (or last) invocation, per stream
LogOf(s) == IF logName \in Names THEN FromStream(files[logName], s) ELSE <<>>

\* C1: after each invocation that ran to its exit, with retain >= 1, the
\* directory holds at most `retain` log files.
C1_RetentionBound ==
    (Finished /\ ending = "exit" /\ retain >= 1) => Cardinality(RegularLogs) <= retain

\* C2: an invocation whose program is in the ignore set creates no log file,
\* deletes none, and leaves the set of files of the directory as it found it.
C2_BypassTouchesNothing ==
    mode = "bypass" => (logName = NoName /\ Names = rot.before /\ rot.gone = {})

\* C3: in captured mode, when the supervisor has left through its exit step,
\* the child has exited, both broadcasters have ended, and every unit the
\* child wrote to a pipe is on the terminal and in the log file.
C3_DrainBeforeExit ==
    (Finished /\ mode = "captured" /\ ending = "exit") =>
        /\ child.state = "exited"
        /\ \A s \in Streams :
            /\ tee[s].pc = "done"
            /\ term[s] = child.wrote[s]
            /\ LogOf(s) = child.wrote[s]

\* C4: at every moment the units of the log that came from one stream are, in
\* order, the first units the child wrote to that stream, and once the
\* supervisor has left through its exit step they are all of them.
C4_PerStreamFidelity ==
    mode = "captured" =>
        \A s \in Streams :
            /\ IsPrefix(LogOf(s), child.wrote[s])
            /\ (Finished /\ ending = "exit") => Len(LogOf(s)) = Len(child.wrote[s])

\* C5: in both modes, once the child was launched and has exited, the
\* supervisor ends with the child's exit code, or with 1 when it has none.
C5_ExitCodePropagated ==
    (Finished /\ child.state = "exited") => exitCode = UnwrapOr(child.status, FallbackCode)

\* C6: a read or write failure in one broadcaster stops that broadcaster only:
\* the supervisor still joins both broadcasters (none is cut short) and exits
\* with the child's exit code.
C6_BroadcastErrorIsolated ==
    (Finished /\ mode = "captured" /\ \E s \in Streams : tee[s].fault # "none") =>
        /\ ending = "exit"
        /\ exitCode = UnwrapOr(child.status, FallbackCode)
        /\ \A s \in Streams : tee[s].pc # "killed"

\* C7: a failed write to the log does not stop the terminal copy: the
\* broadcaster whose log write failed still puts every unit of its stream on
\* the terminal.
C7_TerminalSurvivesLogFailure ==
    \A s \in Streams :
        (Finished /\ tee[s].fault = "log") => term[s] = child.wrote[s]

\* no read and no write has failed in a broadcaster of this invocation
NoFault == \A s \in Streams : tee[s].fault = "none"

\* the drain, fidelity and exit code statements hold of every invocation in
\* which no read and no write of a broadcaster failed and no signal ended
\* the supervisor
DrainWithoutFault ==
    (Finished /\ mode = "captured" /\ child.state = "exited" /\ NoFault /\ ending # "signal") =>
        /\ ending = "exit"
        /\ exitCode = UnwrapOr(child.status, FallbackCode)
        /\ \A s \in Streams :
            /\ tee[s].pc = "done"
            /\ term[s] = child.wrote[s]
            /\ LogOf(s) = child.wrote[s]
            /\ child.wrote[s] = Script(opts.cmd)[s]

\* ---- rotation
\* the log files rotate_old found, and how many of them exceed `retain`
RotLogs == {n \in rot.before : IsLog(n)}
RotTried == SeqToSet(rot.tried)
RotExcess == IF Cardinality(RotLogs) > retain THEN Cardinality(RotLogs) - retain ELSE 0

\* C8: rotate_old considers only .log entries, in name order: it goes for the
\* n - retain smallest names, oldest first, and for nothing when n <= retain;
\* when every deletion succeeds exactly those are gone and the `retain`
\* largest names are left; an entry without the .log extension is never deleted.
\* (Stated where a pass has just returned Ok: main is at step 5.)
C8_RotationResult ==
    (pc = "create" /\ rot.ran = 1 /\ rot.listed) =>
        /\ RotTried \subseteq RotLogs
        /\ rot.gone \subseteq RotTried
        /\ Len(rot.tried) = RotExcess
        /\ \A i, j \in 1..Len(rot.tried) : i < j => PathLess(rot.tried[i], rot.tried[j])
        /\ \A a \in RotTried, b \in RotLogs \ RotTried : PathLess(a, b)
        /\ rot.gone = RotTried =>
              Cardinality(RotLogs \ rot.gone) = Cardinality(RotLogs) - RotExcess
        /\ (rot.gone = RotTried /\ RotExcess > 0) =>
              Cardinality(RotLogs \ rot.gone) = retain
        /\ Names = rot.before \ rot.gone
        /\ \A n \in rot.before : ~IsLog(n) => n \in Names

\* C8 witness: a pass over more than `retain` logs whose two deletions both succeeded
C8_Witness ==
    /\ pc = "create"
    /\ Len(rot.tried) = 2
    /\ rot.gone = RotTried
    /\ \E n \in rot.before : ~IsLog(n)

\* C9 as stated: rotate_old never returns an error, and a failed deletion
\* does not keep it from trying the remaining excess files.
C9_RotateNeverFails ==
    rot.ran = 1 => (~rot.err /\ Len(rot.tried) = RotExcess)

\* C9 amended: rotate_old returns an error exactly when the directory cannot
\* be listed (and then main ends with that error, nothing deleted); a failed
\* deletion is never an error and every excess file is still tried.
C9_BestEffortRotation ==
    rot.ran = 1 =>
        /\ rot.err <=> ~rot.listed
        /\ rot.err => (pc = "idle" /\ ending = "error" /\ exitCode = ErrCode
                       /\ rot.gone = {} /\ Names = rot.before)
        /\ (~rot.err /\ pc = "create") => Len(rot.tried) = RotExcess

\* C9 witness: a deletion failed, a later one of the same pass succeeded, and
\* main went on to create the log
C9_Witness ==
    /\ pc = "create"
    /\ ~rot.err
    /\ \E i \in 1..Len(rot.tried) :
          /\ rot.tried[i] \notin rot.gone
          /\ \E j \in (i + 1)..Len(rot.tried) : rot.tried[j] \in rot.gone

PathOf(prog) == IF prog = "/usr/bin/vim" THEN <<"usr", "bin", "vim">> ELSE <<prog>>
BaseName(prog) == PathOf(prog)[Len(PathOf(prog))]

\* C12: the ignore test takes the bypass branch exactly when the base name of
\* the command (not its path) is in the merged ignore list.
C12_IgnoreByBaseName ==
    [][pc = "check" => (mode' = "bypass" <=> BaseName(opts.cmd) \in SeqToSet(ignore_list))]_vars

\* what the test does decide by: the command exactly as it was typed
IgnoreByTypedName ==
    [][pc = "check" => (mode' = "bypass" <=> opts.cmd \in SeqToSet(ignore_list))]_vars

\* ---- launch failure
\* C13: a captured invocation whose program cannot be launched ends at once
\* with an error and a non-zero exit status: no child, no broadcaster, nothing
\* on the terminal, and the log file it created is still there, empty.
C13_LaunchFailure ==
    (Finished /\ mode = "captured" /\ opts.cmd = "nosuch") =>
        /\ ending = "error"
        /\ exitCode = ErrCode
        /\ exitCode # 0
        /\ child = NoChild
        /\ \A s \in Streams : tee[s].pc = "unspawned" /\ term[s] = <<>> /\ pipe[s] = <<>>
        /\ logName \in Names
        /\ files[logName] = <<>>

\* C13 witness: a launch failure after a rotation pass that deleted old logs
C13_Witness ==
    /\ Finished
    /\ mode = "captured"
    /\ opts.cmd = "nosuch"
    /\ ending = "error"
    /\ logName \in Names
    /\ rot.gone # {}

\* ---- interrupt
\* C14: an interrupt that arrives while the captured child runs reaches the
\* child and does not end the supervisor: the supervisor still waits for the
\* child, joins both broadcasters and (no read or write having failed) exits
\* with the code the child's end determines.
C14_InterruptForwarded ==
    child.sig =>
        /\ ending # "signal"
        /\ (Finished /\ NoFault) =>
              /\ ending = "exit"
              /\ child.state = "exited"
              /\ exitCode = UnwrapOr(child.status, FallbackCode)
              /\ \A s \in Streams : tee[s].pc = "done"

\* ---- order of the two writes
\* C15: a broadcaster writes a line to the terminal, then to the log, and only
\* then reads the next: the lines of its stream in the log are always a prefix
\* of those on the terminal, and the terminal is at most one line ahead.
C15_TerminalThenLog ==
    mode = "captured" =>
        \A s \in Streams :
            /\ IsPrefix(LogOf(s), term[s])
            /\ Len(term[s]) <= Len(LogOf(s)) + 1

\* what the broadcaster has handed to its terminal handle, written or held
Handed(s) == IF tee[s].held = "" THEN term[s] ELSE Append(term[s], tee[s].held)

\* the order of the two calls is as C15 says: counting what the terminal
\* handle still holds, the log is a prefix of the terminal, one line behind
\* exactly between the two calls
TerminalCallThenLogCall ==
    (mode = "captured" /\ pc # "idle") =>
        \A s \in Streams :
            /\ tee[s].pc \in {"unspawned", "read", "lock", "term", "done"} => Handed(s) = LogOf(s)
            /\ tee[s].pc = "log" => Handed(s) = Append(LogOf(s), tee[s].line)
            /\ ~LineBuffered(s) => tee[s].held = ""

\* ---- the terminal lock
\* C16: the lock taken around the terminal write serializes the two
\* broadcasters: they are never both inside their terminal write.
C16_TerminalWritesExclusive ==
    ~(\A s \in Streams : tee[s].pc = "term" /\ tee[s].locked)

\* each broadcaster locks a mutex of its own: whoever is inside its terminal
\* write holds its own lock, and no broadcaster ever waits for a lock
OwnLockNeverContended ==
    \A s \in Streams :
        /\ tee[s].locked <=> tee[s].pc = "term"
        /\ tee[s].pc = "lock" => ENABLED TeeLock(s)

\* ---- rotation and creation
\* C17: in an invocation the rotation pass runs once, before the log file is
\* created, and never after: from its creation to the end of the invocation
\* the new file is in the directory, whatever `retain` is (0 included).
C17_RotationBeforeCreation ==
    /\ pc \in {"mkdir", "rotate"} => (rot.ran = 0 /\ logName = NoName)
    /\ pc = "create" => (rot.ran = 1 /\ ~rot.err /\ logName = NoName)
    /\ logName # NoName => (rot.ran = 1 /\ ~rot.err /\ logName \in Names
                            /\ pc \notin {"mkdir", "rotate", "create"})

\* C17 witness: an invocation with retain = 0 whose pass deleted logs has
\* run to its exit and its own log is there
C17_Witness ==
    /\ retain = 0
    /\ Finished
    /\ ending = "exit"
    /\ rot.gone # {}
    /\ logName \in Names

\* ---- termination
\* the child cannot write: the pipe of stream s is full and still read from
Blocked(s) ==
    /\ child.state = "running"
    /\ child.todo[s] # <<>>
    /\ rOpen[s]
    /\ Len(pipe[s]) >= PipeCap

\* the captured invocation is over, and when no read and no write failed and
\* no signal came, it is over through the exit step with both broadcasters at
\* end of stream
Over ==
    /\ Finished
    /\ (NoFault /\ ending # "signal") =>
          /\ ending = "exit"
          /\ child.state = "exited"
          /\ \A s \in Streams : tee[s].pc = "done" /\ pipe[s] = <<>>

\* C18: while the supervisor waits for the child, a child blocked on a full
\* pipe always has the broadcaster of that pipe able to take a step; and under
\* fair scheduling every captured invocation whose child was launched comes to
\* its end, through the exit step when no read and no write fails.
C18_NoDeadlock ==
    /\ [](\A s \in Streams : (pc = "wait" /\ Blocked(s)) => ENABLED TeeStep(s))
    /\ (pc = "tee_out") ~> Over

\* C18 witness: the supervisor waits, the child is blocked on the full stdout
\* pipe with a line still to write
C18_Witness ==
    /\ pc = "wait"
    /\ Blocked("out")
    /\ tee["out"].pc = "read"

\* ---- storage
Min(a, b) == IF a <= b THEN a ELSE b
\* every deletion of this invocation's pass succeeded
AllDeleted == rot.ran = 1 /\ ~rot.err /\ rot.gone = RotTried
\* the name of this invocation's log was not in the directory when it was created
FreshName == logName \notin (rot.before \ rot.gone)

C11_ExclusiveOwnership ==
    /\ \A i, j \in Instances :
          (i # j /\ Holds(i) /\ Holds(j)) => peer[i].ino # peer[j].ino
    /\ \A i \in Instances : ~peer[i].truncated

====
